---- MODULE Spec2Model ----
(***************************************************************************)
(* tarjm: command-line translation client (src/bin/tarjm.js, lines 1-235). *)
(*                                                                         *)
(* One invocation of tarjm(args) is modelled step by step.  The same       *)
(* invocation (same parsed arguments, same initial config file, same       *)
(* file-system and endpoint behaviour) is executed twice, each execution   *)
(* in a world of its own: once with isMainModule() true (run "main", the   *)
(* terminating command-line process) and once with isMainModule() false    *)
(* (run "embedded", tarjm imported and called by other code).              *)
(*                                                                         *)
(* JavaScript strings that the program inspects character by character     *)
(* (the text to translate) are sequences of one-character strings; all     *)
(* other strings are atoms.  A printed line and an error message are       *)
(* sequences of string parts.                                              *)
(***************************************************************************)
EXTENDS Naturals, Integers, Sequences, FiniteSets, TLC

\* ------------------------------------------------------------------ bounds
MaxTokens == 2      \* positional tokens on the command line
MaxFileLen == 1     \* characters in the file named by -f

\* ---------------------------------------------------------------- JS values
Undefined == "undefined"            \* the JavaScript value undefined

\* JavaScript truthiness of a string-or-undefined value
Truthy(v) == v # Undefined /\ v # ""

\* a || b
Or(a, b) == IF Truthy(a) THEN a ELSE b

Whitespace == {" ", "\n", "\t"}
Chars == {" ", "a"}

RECURSIVE TrimStart(_)
TrimStart(s) ==
    IF s # <<>> /\ Head(s) \in Whitespace THEN TrimStart(Tail(s)) ELSE s

RECURSIVE TrimEnd(_)
TrimEnd(s) ==
    IF s # <<>> /\ s[Len(s)] \in Whitespace
    THEN TrimEnd(SubSeq(s, 1, Len(s) - 1))
    ELSE s

\* String.prototype.trim
Trim(s) == TrimEnd(TrimStart(s))

\* Array.prototype.join
RECURSIVE Join(_, _)
Join(tokens, sep) ==
    IF tokens = <<>> THEN <<>>
    ELSE IF Len(tokens) = 1 THEN tokens[1]
    ELSE tokens[1] \o sep \o Join(Tail(tokens), sep)

SeqsUpTo(S, n) == UNION {[1..k -> S] : k \in 0..n}

\* ------------------------------------------------------------------ inputs
Procs == {"main", "embedded"}

\* isMainModule() of the execution p
isMainModule(p) == p = "main"

Tokens == {<<" ">>, <<"a">>}

ParsedArgs ==
    [d : {Undefined, "fr"}, default : {Undefined, "de"},
     l : {Undefined, "es"}, language : {Undefined, "it"},
     f : {Undefined, "in.txt"}, file : {Undefined},
     h : BOOLEAN, help : BOOLEAN,
     positional : SeqsUpTo(Tokens, MaxTokens)]

\* a parsed config object: the recognised key and one foreign key
EmptyObject == [defaultLanguage |-> Undefined, theme |-> Undefined]

ConfigObjects ==
    [defaultLanguage : {Undefined, "", "ja"}, theme : {Undefined, "dark"}]

\* the config file on disk: absent, present but unreadable/unparseable,
\* or present holding a JSON object
AbsentFile == [exists |-> FALSE, valid |-> FALSE, obj |-> EmptyObject]
CorruptFile == [exists |-> TRUE, valid |-> FALSE, obj |-> EmptyObject]
JsonFile(o) == [exists |-> TRUE, valid |-> TRUE, obj |-> o]

ConfigFiles == {AbsentFile, CorruptFile} \cup {JsonFile(o) : o \in ConfigObjects}

\* the file named by -f: missing, present but unreadable, or readable
SourceFiles ==
    {[exists |-> FALSE, readable |-> FALSE, content |-> <<>>],
     [exists |-> TRUE, readable |-> FALSE, content |-> <<>>]}
    \cup {[exists |-> TRUE, readable |-> TRUE, content |-> c] :
            c \in SeqsUpTo(Chars, MaxFileLen)}

\* what the endpoint does with the request
NoBody == [kind |-> "none", translatedText |-> Undefined]

Bodies ==
    {[kind |-> "invalid", translatedText |-> Undefined],
     [kind |-> "null", translatedText |-> Undefined]}
    \cup {[kind |-> "object", translatedText |-> t] :
            t \in {Undefined, "", "Hola Mundo"}}

Responses ==
    {[reached |-> FALSE, status |-> 0, body |-> NoBody],
     [reached |-> TRUE, status |-> 500, body |-> NoBody]}
    \cup {[reached |-> TRUE, status |-> 200, body |-> b] : b \in Bodies}

\* response.ok
Ok(response) == response.status \in 200..299

StatusString(status) == IF status = 200 THEN "200" ELSE "500"
StatusText(status) == IF status = 200 THEN "OK" ELSE "Internal Server Error"

\* util.inspect of the decoded body, as console.error prints it
Inspect(body) ==
    IF body.kind = "null" THEN "null"
    ELSE IF body.translatedText = Undefined THEN "{}"
    ELSE "{ translatedText: '' }"

\* ------------------------------------------------------------------- state
VARIABLES
    parsedArgs,   \* minimist(args), the same for both executions
    env,          \* behaviour of the outside world, fixed when first met:
                  \* each field is empty (not met yet) or a singleton
    run           \* run[p]: the state of execution p

vars == <<parsedArgs, env, run>>

setDefaultLanguage == Or(parsedArgs.d, parsedArgs.default)
specifiedLanguage == Or(parsedArgs.l, parsedArgs.language)
filePath == Or(parsedArgs.f, parsedArgs.file)
showHelp == parsedArgs.h \/ parsedArgs.help

NoResult == [kind |-> "none", value |-> Undefined, message |-> <<>>]

Init ==
    /\ parsedArgs \in ParsedArgs
    /\ env = [mkdir |-> {}, write |-> {}, source |-> {}, response |-> {}]
    /\ \E dir \in BOOLEAN, cf \in ConfigFiles :
          /\ ~dir => cf = AbsentFile
          /\ run = [p \in Procs |->
                [pc |-> "start",
                 configDir |-> dir,
                 configFile |-> cf,
                 textToTranslate |-> <<>>,
                 targetLanguage |-> Undefined,
                 sent |-> <<>>,
                 stdout |-> <<>>,
                 stderr |-> <<>>,
                 configReads |-> 0,
                 configWrites |-> <<>>,
                 failure |-> "none",
                 exitCode |-> -1,
                 result |-> NoResult]]


\* ----------------------------------------------------- console and signals
\* console.log(line)
Log(r, line) == [r EXCEPT !.stdout = Append(@, line)]

\* console.error(line)
LogError(r, line) == [r EXCEPT !.stderr = Append(@, line)]

\* process.exit(code)
Exit(r, code) == [r EXCEPT !.pc = "done", !.exitCode = code]

\* an error leaves tarjm: the promise returned to the caller rejects
Raise(r, message) ==
    [r EXCEPT !.pc = "done",
              !.result = [kind |-> "throw", value |-> Undefined,
                          message |-> message]]

\* "return value;" inside tarjm.  In the main module the call of line 234
\* then completes and the process ends on its own (ProcessEnd).
Return(r, main, value) ==
    [r EXCEPT !.pc = IF main THEN "returned" ELSE "done",
              !.result = [kind |-> "return", value |-> value,
                          message |-> <<>>]]

\* "if (!isMainModule()) return; process.exit(0);"
ReturnOrExit(r, main) ==
    IF ~main THEN Return(r, main, Undefined) ELSE Exit(r, 0)

\* the outermost catch of tarjm (lines 224-229)
OuterCatch(r, main, message) ==
    LET r1 == LogError(r, <<"An unexpected error occurred:">> \o message)
    IN  IF ~main THEN Raise(r1, message) ELSE Exit(r1, 1)

\* ThrowOrExit without the isMainModule() test: the process always exits
ThrowOrExit_AlwaysExits(r, main, message) == Exit(r, 1)

\* ThrowOrExit ending the process with status 0
ThrowOrExit_StatusZero(r, main, message) ==
    IF ~main THEN OuterCatch(r, main, message) ELSE Exit(r, 0)

\* "if (!isMainModule()) throw new Error(message); process.exit(1);" at the
\* top level of the outer try block
ThrowOrExit(r, main, message) ==
    IF ~main THEN OuterCatch(r, main, message) ELSE Exit(r, 1)

\* the catch around the file read (lines 165-169)
FileCatch(r, main, message) ==
    LET r1 == LogError(r, <<"Error reading file:">> \o message)
    IN  IF ~main THEN OuterCatch(r1, main, message) ELSE Exit(r1, 1)

\* the catch around the translation request (lines 218-223)
RequestCatch(r, main, message) ==
    LET r1 == LogError(r, <<"Error during translation request:">> \o message)
    IN  IF ~main THEN OuterCatch(r1, main, message) ELSE Exit(r1, 1)

\* ------------------------------------------------------------ config store
\* readConfig(): the parsed object, and the run after the read
ReadConfig(r) ==
    IF r.configFile.exists
    THEN LET r1 == [r EXCEPT !.configReads = @ + 1]
         IN  IF r.configFile.valid
             THEN [config |-> r.configFile.obj, run |-> r1]
             ELSE [config |-> EmptyObject,
                   run |-> LogError(r1, <<"Error reading config file:",
                                          "cannot read or parse">>)]
    ELSE [config |-> EmptyObject, run |-> r]

\* WriteConfig saving a fresh object that holds defaultLanguage only
WriteConfig_DropsOtherKeys(r, config, ok) ==
    LET fresh == [EmptyObject EXCEPT
                    !.defaultLanguage = config.defaultLanguage]
        r1 == [r EXCEPT !.configWrites = Append(@, fresh)]
    IN  IF ok
        THEN [r1 EXCEPT !.configFile = JsonFile(fresh)]
        ELSE LogError(r1, <<"Error writing config file:", "cannot write">>)

\* WriteConfig that logs the new default but never calls fs.writeFileSync
WriteConfig_NeverWrites(r, config, ok) == r

\* writeConfig(config); ok: whether fs.writeFileSync succeeds
WriteConfig(r, config, ok) ==
    LET r1 == [r EXCEPT !.configWrites = Append(@, config)]
    IN  IF ok
        THEN [r1 EXCEPT !.configFile = JsonFile(config)]
        ELSE LogError(r1, <<"Error writing config file:", "cannot write">>)

\* ------------------------------------------------------------------ steps
\* the two executions are independent; "main" is explored first
Scheduled(p) == p = "main" \/ run["main"].pc = "done"

\* the outside world answers c for the field f of env, now and ever after
Meets(f, c) == env[f] \subseteq {c} /\ env' = [env EXCEPT ![f] = {c}]

\* lines 43-84: help
ShowHelp(p) ==
    /\ Scheduled(p)
    /\ run[p].pc = "start"
    /\ showHelp
    /\ run' = [run EXCEPT ![p] =
                 ReturnOrExit(Log(run[p], <<"Usage:">>), isMainModule(p))]
    /\ UNCHANGED <<parsedArgs, env>>

\* line 87 and lines 94-97: the positional text; the config directory
EnsureConfigDir(p) ==
    /\ Scheduled(p)
    /\ run[p].pc = "start"
    /\ ~showHelp
    /\ LET r == [run[p] EXCEPT
                    !.textToTranslate = Join(parsedArgs.positional, <<" ">>)]
       IN  IF r.configDir
           THEN /\ run' = [run EXCEPT ![p] = [r EXCEPT !.pc = "default"]]
                /\ UNCHANGED env
           ELSE \E ok \in BOOLEAN :
                /\ Meets("mkdir", ok)
                /\ run' = [run EXCEPT ![p] =
                     IF ok
                     THEN [r EXCEPT !.pc = "default", !.configDir = TRUE]
                     ELSE OuterCatch([r EXCEPT !.failure = "Unexpected"],
                                     isMainModule(p),
                                     <<"EACCES: permission denied, mkdir">>)]
    /\ UNCHANGED parsedArgs

\* NoTextSource with the negation of the file test dropped
NoTextSource_FileGiven(text, path) == ~(text # <<>>) /\ Truthy(path)

\* line 138: neither positional text nor a file was given
NoTextSource(text, path) == ~(text # <<>>) /\ ~Truthy(path)

\* lines 130-142: -d / --default
SetDefaultLanguage(p) ==
    /\ Scheduled(p)
    /\ run[p].pc = "default"
    /\ Truthy(setDefaultLanguage)
    /\ \E ok \in BOOLEAN :
        /\ Meets("write", ok)
        /\ LET rd == ReadConfig(run[p])
               config == [rd.config EXCEPT
                            !.defaultLanguage = setDefaultLanguage]
               r1 == WriteConfig(rd.run, config, ok)
               r2 == Log(r1, <<"Default language set to: ",
                               setDefaultLanguage>>)
           IN  run' = [run EXCEPT ![p] =
                 IF NoTextSource(r2.textToTranslate, filePath)
                 THEN ReturnOrExit(r2, isMainModule(p))
                 ELSE [r2 EXCEPT !.pc = "language"]]
    /\ UNCHANGED parsedArgs

\* TargetLanguage with the persisted default taking precedence over -l
TargetLanguage_DefaultFirst(specified, config) ==
    IF Truthy(config.defaultLanguage) THEN config.defaultLanguage
    ELSE IF Truthy(specified) THEN specified
    ELSE "en"

\* lines 144-154, as a function of the -l value and of the config read
TargetLanguage(specified, config) ==
    IF Truthy(specified) THEN specified
    ELSE IF Truthy(config.defaultLanguage) THEN config.defaultLanguage
    ELSE "en"

\* PersistedConfig saving the -l value as the new default
PersistedConfig_SavesLanguage(r, specified) ==
    IF Truthy(specified)
    THEN [config |-> EmptyObject,
          run |-> [r EXCEPT !.configFile =
                     JsonFile([EmptyObject EXCEPT
                                 !.defaultLanguage = specified])]]
    ELSE ReadConfig(r)

\* PersistedConfig reading the config file whether or not -l was given
PersistedConfig_AlwaysReads(r, specified) == ReadConfig(r)

\* lines 147-150: the config is read only when no -l value was given
PersistedConfig(r, specified) ==
    IF Truthy(specified)
    THEN [config |-> EmptyObject, run |-> r]
    ELSE ReadConfig(r)

\* ResolveTargetLanguage reading the config first and letting the
\* persisted default win over -l
ResolveTargetLanguage_DefaultFirst(p) ==
    /\ Scheduled(p)
    /\ \/ run[p].pc = "language"
       \/ run[p].pc = "default" /\ ~Truthy(setDefaultLanguage)
    /\ LET rd == ReadConfig(run[p])
       IN  run' = [run EXCEPT ![p] =
             [rd.run EXCEPT
                !.pc = "file",
                !.targetLanguage = TargetLanguage_DefaultFirst(
                                      specifiedLanguage, rd.config)]]
    /\ UNCHANGED <<parsedArgs, env>>

\* lines 144-154: the target language
ResolveTargetLanguage(p) ==
    /\ Scheduled(p)
    /\ \/ run[p].pc = "language"
       \/ run[p].pc = "default" /\ ~Truthy(setDefaultLanguage)
    /\ LET rd == PersistedConfig(run[p], specifiedLanguage)
       IN  run' = [run EXCEPT ![p] =
             [rd.run EXCEPT
                !.pc = "file",
                !.targetLanguage = TargetLanguage(specifiedLanguage,
                                                  rd.config)]]
    /\ UNCHANGED <<parsedArgs, env>>

\* ResolveTextSource without the existence test: a missing file leaves
\* the positional text in place
ResolveTextSource_SkipsMissing(r, main, path, src) ==
    IF ~src.exists
    THEN [r EXCEPT !.pc = "text"]
    ELSE IF ~src.readable
    THEN FileCatch([r EXCEPT !.failure = "IOFailure"], main,
                   <<"EACCES: permission denied, open">>)
    ELSE [r EXCEPT !.pc = "text", !.textToTranslate = src.content]

\* ResolveTextSource keeping the positional text when there is one
ResolveTextSource_PositionalWins(r, main, path, src) ==
    IF ~src.exists
    THEN LET message == <<"File not found: ", path>>
             r1 == LogError([r EXCEPT !.failure = "FileNotFound"], message)
         IN  IF ~main THEN FileCatch(r1, main, message) ELSE Exit(r1, 1)
    ELSE IF ~src.readable
    THEN FileCatch([r EXCEPT !.failure = "IOFailure"], main,
                   <<"EACCES: permission denied, open">>)
    ELSE [r EXCEPT !.pc = "text",
                   !.textToTranslate =
                      IF r.textToTranslate # <<>> THEN r.textToTranslate
                      ELSE src.content]

\* lines 157-170: the text is read from the file at path; src is what the
\* file system holds there
ResolveTextSource(r, main, path, src) ==
    IF ~src.exists
    THEN LET message == <<"File not found: ", path>>
             r1 == LogError([r EXCEPT !.failure = "FileNotFound"], message)
         IN  IF ~main THEN FileCatch(r1, main, message) ELSE Exit(r1, 1)
    ELSE IF ~src.readable
    THEN FileCatch([r EXCEPT !.failure = "IOFailure"], main,
                   <<"EACCES: permission denied, open">>)
    ELSE [r EXCEPT !.pc = "text", !.textToTranslate = src.content]

\* lines 156-170: -f / --file
ReadTextFile(p) ==
    /\ Scheduled(p)
    /\ run[p].pc = "file"
    /\ Truthy(filePath)
    /\ \E src \in SourceFiles :
        /\ Meets("source", src)
        /\ run' = [run EXCEPT ![p] =
             ResolveTextSource(run[p], isMainModule(p), filePath, src)]
    /\ UNCHANGED parsedArgs

\* Blank without the trim
Blank_NoTrim(text) == ~(text # <<>>)

\* line 173: the text is empty once trimmed
Blank(text) == ~(Trim(text) # <<>>)

\* lines 180-187
RequestBody(text, target) ==
    [q |-> text, source |-> "auto", target |-> target, format |-> "text",
     alternatives |-> 3, api_key |-> ""]

\* lines 172-177: the text must not be blank
CheckText(p) ==
    /\ Scheduled(p)
    /\ \/ run[p].pc = "text"
       \/ run[p].pc = "file" /\ ~Truthy(filePath)
    /\ run' = [run EXCEPT ![p] =
         IF Blank(run[p].textToTranslate)
         THEN ThrowOrExit(
                LogError([run[p] EXCEPT !.failure = "NoInputText"],
                         <<"Please provide text to translate.">>),
                isMainModule(p), <<"No text provided.">>)
         ELSE [run[p] EXCEPT !.pc = "fetch"]]
    /\ UNCHANGED <<parsedArgs, env>>

\* lines 179-195: the request leaves for the endpoint
SendRequest(p) ==
    /\ Scheduled(p)
    /\ run[p].pc = "fetch"
    /\ run' = [run EXCEPT ![p] =
         [run[p] EXCEPT
            !.pc = "await",
            !.sent = Append(@, RequestBody(run[p].textToTranslate,
                                           run[p].targetLanguage))]]
    /\ UNCHANGED <<parsedArgs, env>>

\* line 209: the decoded body carries a translation
Translated(body) == body.kind = "object" /\ Truthy(body.translatedText)

\* lines 197-217: what tarjm does with a response that arrived
HandleResponse(r, main, response) ==
    IF ~Ok(response)
    THEN LET r1 == LogError([r EXCEPT !.failure = "ServerError"],
                      <<"Translation server responded with status ",
                        StatusString(response.status), ": ",
                        StatusText(response.status)>>)
         IN  IF ~main
             THEN RequestCatch(r1, main,
                    <<"Server error: ", StatusString(response.status)>>)
             ELSE Exit(r1, 1)
    ELSE IF response.body.kind = "invalid"
    THEN RequestCatch([r EXCEPT !.failure = "TransportError"], main,
                      <<"invalid json response body">>)
    ELSE IF Translated(response.body)
    THEN Return(Log(Log(r, <<"Translated Text:\n">>),
                    <<response.body.translatedText>>),
                main, response.body.translatedText)
    ELSE LET r1 == LogError([r EXCEPT !.failure = "TranslationRejected"],
                      <<"Translation failed. Response data:",
                        Inspect(response.body)>>)
         IN  IF ~main
             THEN RequestCatch(r1, main, <<"Translation failed.">>)
             ELSE Exit(r1, 1)

\* lines 190-223: the awaited request settles
ReceiveResponse(p) ==
    /\ Scheduled(p)
    /\ run[p].pc = "await"
    /\ \E response \in Responses :
        /\ Meets("response", response)
        /\ run' = [run EXCEPT ![p] =
             IF ~response.reached
             THEN RequestCatch([run[p] EXCEPT !.failure = "TransportError"],
                               isMainModule(p),
                               <<"request to http://tarjm:5000/translate failed">>)
             ELSE HandleResponse(run[p], isMainModule(p), response)]
    /\ UNCHANGED parsedArgs

\* lines 232-235: in the main module nothing is left to run once tarjm()
\* has returned, and the process ends with status 0
ProcessEnd(p) ==
    /\ Scheduled(p)
    /\ run[p].pc = "returned"
    /\ run' = [run EXCEPT ![p] = Exit(run[p], 0)]
    /\ UNCHANGED <<parsedArgs, env>>

Next ==
    \E p \in Procs :
        \/ ShowHelp(p)
        \/ EnsureConfigDir(p)
        \/ SetDefaultLanguage(p)
        \/ ResolveTargetLanguage(p)
        \/ ReadTextFile(p)
        \/ CheckText(p)
        \/ SendRequest(p)
        \/ ReceiveResponse(p)
        \/ ProcessEnd(p)

Spec == Init /\ [][Next]_vars

\* ---------------------------------------------------------------- outcomes
Done(p) == run[p].pc = "done"

\* the execution ended in failure: status 1 for the process, a rejected
\* promise for the caller
Failed(p) ==
    /\ Done(p)
    /\ IF isMainModule(p) THEN run[p].exitCode = 1
       ELSE run[p].result.kind = "throw"

\* the execution ended in success: status 0 for the process, a value (or
\* nothing) returned to the caller
Succeeded(p) ==
    /\ Done(p)
    /\ IF isMainModule(p) THEN run[p].exitCode = 0
       ELSE run[p].result.kind = "return"

\* the value of -d/--default, of -l/--language, as the command line gave them
GivenDefault ==
    IF parsedArgs.d # Undefined THEN parsedArgs.d ELSE parsedArgs.default
GivenLanguage ==
    IF parsedArgs.l # Undefined THEN parsedArgs.l ELSE parsedArgs.language

\* the defaultLanguage that the config file of execution p holds now
Persisted(p) ==
    IF run[p].configFile.exists /\ run[p].configFile.valid
    THEN run[p].configFile.obj.defaultLanguage
    ELSE Undefined

\* the command line asks for nothing but a new default
SetDefaultOnly ==
    /\ ~showHelp
    /\ GivenDefault # Undefined
    /\ parsedArgs.positional = <<>>
    /\ parsedArgs.f = Undefined /\ parsedArgs.file = Undefined

\* the config directory could not be created
NoConfigDir == env.mkdir = {FALSE}

\* ------------------------------------------------------------------ claims

\* C1: the target of every request sent is the -l/--language value when one
\* was given, otherwise the defaultLanguage the config file holds when it
\* holds a non-empty one, otherwise "en".
C1_TargetPrecedence ==
    \A p \in Procs : \A i \in 1..Len(run[p].sent) :
        run[p].sent[i].target =
            IF GivenLanguage # Undefined THEN GivenLanguage
            ELSE IF Persisted(p) \notin {Undefined, ""} THEN Persisted(p)
            ELSE "en"

\* C1 witness: a request was sent with an explicit language Y while the
\* config file holds another default X.
C1_Witness ==
    \E p \in Procs :
        /\ run[p].sent # <<>>
        /\ GivenLanguage = "es"
        /\ Persisted(p) = "ja"
        /\ run[p].sent[1].target = "es"

\* C2: the embedded execution never terminates the process; it ends either
\* by returning (the translated text, or nothing for help and for
\* set-default-only) or by raising, and every failure ends by raising.
C2_EmbeddedNeverExits ==
    LET r == run["embedded"] IN
    /\ r.exitCode = -1
    /\ Done("embedded") =>
        /\ r.result.kind \in {"return", "throw"}
        /\ r.failure # "none" => r.result.kind = "throw"
        /\ (\E src \in env.source : ~(src.exists /\ src.readable))
              => r.result.kind = "throw"
        /\ (\E rsp \in env.response :
               ~rsp.reached \/ rsp.status \notin 200..299
               \/ rsp.body.kind # "object"
               \/ rsp.body.translatedText = Undefined)
              => r.result.kind = "throw"
        /\ r.result.kind = "return" =>
             \/ r.result.value = Undefined /\ (showHelp \/ SetDefaultOnly)
             \/ /\ r.sent # <<>>
                /\ \E rsp \in env.response :
                      r.result.value = rsp.body.translatedText
                /\ r.result.value # Undefined

\* C2 witness: an embedded execution has failed and ended by raising.
C2_Witness ==
    /\ Done("embedded")
    /\ run["embedded"].failure = "ServerError"
    /\ run["embedded"].result.kind = "throw"

\* C3: the main-module execution ends with status 0 on help, on
\* set-default-only and on a translation, and with status 1 on every error.
C3_ExitStatus ==
    LET r == run["main"] IN
    Done("main") =>
        /\ r.exitCode \in {0, 1}
        /\ r.exitCode = 0 <=> r.failure = "none"
        /\ showHelp => r.exitCode = 0
        /\ SetDefaultOnly /\ ~NoConfigDir => r.exitCode = 0
        /\ r.result.kind = "return" => r.exitCode = 0
        /\ r.failure \in {"NoInputText", "FileNotFound", "IOFailure",
                          "ServerError", "TransportError",
                          "TranslationRejected", "Unexpected"}
              => r.exitCode = 1
        /\ (\E src \in env.source : ~(src.exists /\ src.readable))
              => r.exitCode = 1
        /\ (\E rsp \in env.response :
               ~rsp.reached \/ rsp.status \notin 200..299
               \/ rsp.body.kind # "object"
               \/ rsp.body.translatedText = Undefined)
              => r.exitCode = 1
        /\ r.exitCode = 1 => r.stderr # <<>>

\* C3 witness: a main-module execution ended with status 1 after a 2xx
\* response without translatedText.
C3_Witness ==
    /\ Done("main")
    /\ run["main"].failure = "TranslationRejected"
    /\ run["main"].exitCode = 1
    /\ \E rsp \in env.response :
          rsp.status = 200 /\ rsp.body.translatedText = Undefined

\* the seq suffix is the end of the seq line
EndsWith(line, suffix) ==
    /\ Len(suffix) <= Len(line)
    /\ SubSeq(line, Len(line) - Len(suffix) + 1, Len(line)) = suffix

\* the error line of an execution: the last line it printed to stderr
ErrorLine(p) == run[p].stderr[Len(run[p].stderr)]

\* C4 (as claimed): for every failure, the message of the error raised by
\* the embedded execution is the message that the main-module execution
\* of the same invocation printed as its error line (the line may carry a
\* prefix in front of the message).
C4_SameMessage ==
    Failed("main") /\ Failed("embedded") =>
        EndsWith(ErrorLine("main"), run["embedded"].result.message)

\* C5: with -d X, no positional text, no file and no help, no request is
\* ever sent; the invocation ends in success once the config directory is
\* there (status 0, or nothing returned), after writing once a config
\* whose defaultLanguage is X, which the file holds when the write succeeds.
C5_SetDefaultOnly ==
    SetDefaultOnly =>
        \A p \in Procs :
            /\ run[p].sent = <<>>
            /\ run[p].pc \notin {"fetch", "await"}
            /\ Done(p) /\ ~NoConfigDir =>
                /\ Succeeded(p)
                /\ ~isMainModule(p) => run[p].result.value = Undefined
                /\ Len(run[p].configWrites) = 1
                /\ run[p].configWrites[1].defaultLanguage = GivenDefault
                /\ env.write = {TRUE} => Persisted(p) = GivenDefault

\* C5 witness: a set-default-only invocation with -d fr has ended in both
\* modes and the config file holds fr.
C5_Witness ==
    /\ SetDefaultOnly
    /\ \A p \in Procs : Done(p) /\ Persisted(p) = "fr"
    /\ env.write = {TRUE}

\* the file named by -f is missing or cannot be read
BadSource == \E src \in env.source : ~(src.exists /\ src.readable)

\* C6: when the file named by -f is missing or unreadable, no request is
\* sent and the execution ends in failure (FileNotFound or IOFailure), in
\* both modes and whatever else was given.
C6_BadFileNoRequest ==
    BadSource =>
        \A p \in Procs :
            /\ run[p].sent = <<>>
            /\ run[p].pc \notin {"fetch", "await"}
            /\ Done(p) =>
                /\ Failed(p)
                /\ \A src \in env.source :
                      run[p].failure =
                        IF ~src.exists THEN "FileNotFound" ELSE "IOFailure"

\* C6 witness: both executions ended on a missing file although positional
\* text, -l and -d were given as well.
C6_Witness ==
    /\ \A p \in Procs : Failed(p) /\ run[p].failure = "FileNotFound"
    /\ parsedArgs.positional # <<>>
    /\ GivenLanguage # Undefined
    /\ GivenDefault # Undefined

\* the text source of the invocation is known: no -f, or a file that was read
SourceResolved ==
    filePath = Undefined \/ (env.source # {} /\ ~BadSource)

\* the resolved text: the content of the file if -f was given, otherwise
\* the positional tokens joined by single spaces
ResolvedText ==
    IF filePath # Undefined
    THEN (CHOOSE src \in env.source : TRUE).content
    ELSE Join(parsedArgs.positional, <<" ">>)

\* String.prototype.trim leaves nothing of text
AllWhitespace(text) == \A i \in 1..Len(text) : text[i] \in Whitespace

\* C7 (as claimed): a request is sent only for a text that is not blank,
\* and an invocation (help aside, config directory there) whose resolved
\* text is blank fails with NoInputText and sends nothing.
C7_BlankAlwaysFails ==
    \A p \in Procs :
        /\ \A i \in 1..Len(run[p].sent) : ~AllWhitespace(run[p].sent[i].q)
        /\ (/\ Done(p) /\ ~showHelp /\ ~NoConfigDir
            /\ SourceResolved /\ AllWhitespace(ResolvedText))
              => /\ Failed(p)
                 /\ run[p].failure = "NoInputText"
                 /\ run[p].sent = <<>>

\* C7 (amended): a request is sent only for a text that is not blank, and
\* its q is the resolved text; an invocation that is neither help nor
\* set-default-only, whose config directory is there and whose resolved
\* text is blank, fails with NoInputText and sends nothing.
C7_BlankFailsUnlessSetDefaultOnly ==
    \A p \in Procs :
        /\ \A i \in 1..Len(run[p].sent) :
              /\ ~AllWhitespace(run[p].sent[i].q)
              /\ run[p].sent[i].q = ResolvedText
        /\ (/\ Done(p) /\ ~showHelp /\ ~NoConfigDir /\ ~SetDefaultOnly
            /\ SourceResolved /\ AllWhitespace(ResolvedText))
              => /\ Failed(p)
                 /\ run[p].failure = "NoInputText"
                 /\ run[p].sent = <<>>

\* C7 witness: an invocation whose text is whitespace only has failed with
\* NoInputText in both modes.
C7_Witness ==
    /\ SourceResolved
    /\ ResolvedText = <<" ", " ", " ">>
    /\ \A p \in Procs : Failed(p) /\ run[p].failure = "NoInputText"

\* a text source was given on the command line
TextSourceGiven == parsedArgs.positional # <<>> \/ filePath # Undefined

C9_TargetIsNewDefault ==
    (/\ GivenDefault # Undefined /\ GivenLanguage = Undefined
     /\ TextSourceGiven /\ env.write = {FALSE})
      => \A p \in Procs :
            /\ \A i \in 1..Len(run[p].sent) :
                  run[p].sent[i].target = GivenDefault
            /\ (Done(p) /\ SourceResolved /\ ~AllWhitespace(ResolvedText))
                  => run[p].sent # <<>>

\* the endpoint answered 2xx with a body that has a translatedText field
AnsweredWithText(rsp) ==
    /\ rsp.reached
    /\ rsp.status \in 200..299
    /\ rsp.body.kind = "object"
    /\ rsp.body.translatedText # Undefined

\* C10 (as claimed): for every string T, a 2xx answer whose body has
\* translatedText = T ends in success with T (returned, or printed before
\* status 0); a 2xx answer is a rejected translation only when the body
\* lacks translatedText.
C10_EveryTextSucceeds ==
    \A p \in Procs : \A rsp \in env.response :
        Done(p) =>
            /\ AnsweredWithText(rsp) =>
                  /\ Succeeded(p)
                  /\ run[p].result.value = rsp.body.translatedText
                  /\ run[p].stdout # <<>>
                  /\ run[p].stdout[Len(run[p].stdout)]
                        = <<rsp.body.translatedText>>
            /\ run[p].failure = "TranslationRejected" =>
                  ~AnsweredWithText(rsp)

\* the translated text an execution reported: the value tarjm returned
ReportedText(p) == run[p].result.value

\* C11 (as claimed): once both executions of one invocation have ended,
\* they made the same config writes and left the same config file, sent the
\* same requests, reached the same outcome (same translated text, same
\* failure kind) and printed the same error lines.
C11_ModesAgree ==
    Done("main") /\ Done("embedded") =>
        /\ run["main"].configWrites = run["embedded"].configWrites
        /\ run["main"].configFile = run["embedded"].configFile
        /\ run["main"].sent = run["embedded"].sent
        /\ run["main"].failure = run["embedded"].failure
        /\ Succeeded("main") <=> Succeeded("embedded")
        /\ ReportedText("main") = ReportedText("embedded")
        /\ run["main"].stdout = run["embedded"].stdout
        /\ run["main"].stderr = run["embedded"].stderr

\* C12: in an invocation without -d/--default no step changes the config
\* file or attempts a write, and with -l Y every request sent has target Y.
C12_NoDefaultNoWrite ==
    [][GivenDefault = Undefined =>
         \A p \in Procs :
            /\ run'[p].configFile = run[p].configFile
            /\ run'[p].configWrites = <<>>
            /\ GivenLanguage # Undefined =>
                 \A i \in 1..Len(run'[p].sent) :
                    run'[p].sent[i].target = GivenLanguage]_vars

\* C12 witness: without -d, both executions have ended after a request
\* with target es, and the config file still holds the default ja.
C12_Witness ==
    /\ GivenDefault = Undefined
    /\ GivenLanguage = "es"
    /\ \A p \in Procs :
          /\ Done(p)
          /\ run[p].sent # <<>>
          /\ run[p].sent[1].target = "es"
          /\ Persisted(p) = "ja"
          /\ run[p].configWrites = <<>>

\* the config file holds a JSON object
HoldsObject(file) == file.exists /\ file.valid

\* C13: the step that saves the config for -d X saves defaultLanguage = X
\* with every other key as the file held it when it held a JSON object,
\* and exactly {defaultLanguage: X} when the file was absent or unparseable;
\* the save is no failure, and the file holds the saved config when the
\* write succeeds.
C13_SavePreservesOtherKeys ==
    [][\A p \in Procs :
         run'[p].configWrites # run[p].configWrites =>
            LET old == run[p].configFile
                saved == run'[p].configWrites[Len(run'[p].configWrites)]
            IN  /\ run'[p].configWrites = Append(run[p].configWrites, saved)
                /\ saved.defaultLanguage = GivenDefault
                /\ HoldsObject(old) => saved.theme = old.obj.theme
                /\ ~HoldsObject(old) =>
                     saved = [defaultLanguage |-> GivenDefault,
                              theme |-> Undefined]
                /\ run'[p].failure = "none"
                /\ run'[p].exitCode # 1 /\ run'[p].result.kind # "throw"
                /\ env'.write = {TRUE} =>
                     run'[p].configFile = JsonFile(saved)]_vars

\* C13 witness: -d fr was applied to a config file holding another key,
\* and the file now holds defaultLanguage fr next to that key.
C13_Witness ==
    \E p \in Procs :
        /\ GivenDefault = "fr"
        /\ run[p].configWrites =
              <<[defaultLanguage |-> "fr", theme |-> "dark"]>>
        /\ run[p].configFile =
              JsonFile([defaultLanguage |-> "fr", theme |-> "dark"])

\* the positional text: the positional tokens joined by single spaces
PositionalText == Join(parsedArgs.positional, <<" ">>)

\* C14: with -f naming a readable file, q of every request is the content
\* of the file, whatever the positional text, and a blank file sends
\* nothing even when positional text was given; without -f, q is the
\* positional text, character for character.
C14_FileWins ==
    \A p \in Procs :
        /\ \A i \in 1..Len(run[p].sent) :
              IF parsedArgs.f # Undefined \/ parsedArgs.file # Undefined
              THEN \A src \in env.source :
                      /\ src.exists /\ src.readable
                      /\ run[p].sent[i].q = src.content
              ELSE run[p].sent[i].q = PositionalText
        /\ \A src \in env.source :
              (/\ Done(p) /\ src.exists /\ src.readable
               /\ AllWhitespace(src.content))
                 => run[p].sent = <<>> /\ run[p].failure = "NoInputText"

\* C14 witness: -f and positional text were both given, and the request
\* carries the content of the file, which is not the positional text.
C14_Witness ==
    \E p \in Procs :
        /\ parsedArgs.f # Undefined
        /\ PositionalText = <<"a", " ", "a">>
        /\ run[p].sent # <<>>
        /\ run[p].sent[1].q = <<"a">>

\* the text source of an invocation failed
TextSourceFailed(p) ==
    run[p].failure \in {"FileNotFound", "IOFailure", "NoInputText"}

\* C15: with -d X and no help, the config is saved before the text source
\* is looked at: from the language step on, one write of defaultLanguage = X
\* has been attempted, so an execution whose text source fails ends in
\* failure with that write done (the file holds X when the write
\* succeeded); with help, the execution ends in success without reading
\* or writing the config, even when -d X was given.
C15_SaveBeforeTextSource ==
    \A p \in Procs :
        /\ (GivenDefault # Undefined /\ ~showHelp) =>
             /\ (run[p].pc \in {"language", "file", "text", "fetch", "await"}
                 \/ TextSourceFailed(p))
                  => /\ Len(run[p].configWrites) = 1
                     /\ run[p].configWrites[1].defaultLanguage = GivenDefault
                     /\ env.write = {TRUE} => Persisted(p) = GivenDefault
             /\ TextSourceFailed(p) => Failed(p)
        /\ showHelp =>
             /\ run[p].configWrites = <<>>
             /\ run[p].configReads = 0
             /\ run[p].pc \in {"start", "done"}
             /\ Done(p) => Succeeded(p) /\ run[p].stdout = <<<<"Usage:">>>>

\* C15 witness: -d fr with a missing file: both executions failed with
\* FileNotFound and the config file holds fr.
C15_Witness ==
    /\ GivenDefault = "fr"
    /\ \A p \in Procs :
          /\ Failed(p)
          /\ run[p].failure = "FileNotFound"
          /\ Persisted(p) = "fr"

====
